---- MODULE Spec2Model ----
(***************************************************************************)
(* Model of the note editor of src/src/App.svelte: the module-level store  *)
(* `file`, the component's list `files`, the two asynchronous handlers     *)
(* onClickSave and onClick with the backend calls they leave in flight,    *)
(* the two bound inputs and the click on a list item.                      *)
(*                                                                         *)
(* Strings are sequences of one-character strings, so that JSON.stringify  *)
(* and JSON.parse are modelled on the text they produce and consume.       *)
(***************************************************************************)
EXTENDS Integers, Sequences, FiniteSets, TLC

VARIABLES
    file,      \* the value of the store `file` (NoteStore)
    files,     \* the component's `files` array (NoteCollection)
    calls,     \* invoke() calls whose promise has not settled yet
    store,     \* the records the backend holds
    nUuid,     \* how many identifiers crypto.randomUUID() has handed out
    nCalls,    \* how many invoke() calls have been issued
    nEdits,    \* how many input events the two bound fields have taken
    outcome,   \* what the latest handler threw, if anything, and the
               \* command that failed, if it was a rejected promise
    savedAs,   \* history: identifiers under which saves of the note in the
               \* editor have succeeded since it was last selected
    output,    \* the component's `output`: the HTML shown beside the textarea
    mounted,   \* whether the component is still mounted
    succeeded  \* history: whether some backend call has been fulfilled

vars == <<file, files, calls, store, nUuid, nCalls, nEdits, outcome, savedAs,
          output, mounted, succeeded>>

----------------------------------------------------------------------------
(* Bounds *)

MaxLen == 1      \* longest title or body the user types
MaxCalls == 3    \* invoke() calls issued in one run, the start-up load included
MaxEdits == 1    \* input events of the title and body fields in one run

----------------------------------------------------------------------------
(* Text *)

QUOTE == "\""
BSLASH == "\\"

\* the characters the user types: a plain one and the two JSON must escape
Chars == {"a", QUOTE, BSLASH}

Strs == UNION {[1..n -> Chars] : n \in 0..MaxLen}

KeyContent == <<"c", "o", "n", "t", "e", "n", "t">>
KeyFileName == <<"f", "i", "l", "e", "_", "n", "a", "m", "e">>
NullText == <<"n", "u", "l", "l">>

\* the value of $file.content: the object {content, file_name}, or null
Obj(c, f) == [t |-> "object", content |-> c, file_name |-> f]
Null == [t |-> "null", content |-> <<>>, file_name |-> <<>>]

\* an escaper that knows the quote only
EscapeQuoteOnly(c) ==
    IF c = QUOTE THEN <<BSLASH, QUOTE>> ELSE <<c>>

EscapeChar(c) ==
    IF c = QUOTE THEN <<BSLASH, QUOTE>>
    ELSE IF c = BSLASH THEN <<BSLASH, BSLASH>>
    ELSE <<c>>

RECURSIVE Escape(_)
Escape(s) ==
    IF s = <<>> THEN <<>> ELSE EscapeChar(Head(s)) \o Escape(Tail(s))

Quote(s) == <<QUOTE>> \o Escape(s) \o <<QUOTE>>

\* JSON.stringify of a value of $file.content
JSONstringify(v) ==
    IF v.t = "null" THEN NullText
    ELSE <<"{">> \o Quote(KeyContent) \o <<":">> \o Quote(v.content)
         \o <<",">> \o Quote(KeyFileName) \o <<":">> \o Quote(v.file_name)
         \o <<"}">>

Fail == [ok |-> FALSE, val |-> <<>>, next |-> 0]

\* the characters of a JSON string from position p, after its opening quote
RECURSIVE ReadChars(_, _, _)
ReadChars(t, p, acc) ==
    IF p > Len(t) THEN Fail
    ELSE IF t[p] = QUOTE THEN [ok |-> TRUE, val |-> acc, next |-> p + 1]
    ELSE IF t[p] = BSLASH
         THEN IF p + 1 <= Len(t) /\ t[p + 1] \in {QUOTE, BSLASH}
              THEN ReadChars(t, p + 2, Append(acc, t[p + 1]))
              ELSE Fail
    ELSE ReadChars(t, p + 1, Append(acc, t[p]))

ReadString(t, p) ==
    IF p <= Len(t) /\ t[p] = QUOTE THEN ReadChars(t, p + 1, <<>>) ELSE Fail

\* whether text t holds the characters lit from position p on
Expect(t, p, lit) ==
    /\ p >= 1
    /\ p + Len(lit) - 1 <= Len(t)
    /\ SubSeq(t, p, p + Len(lit) - 1) = lit

\* JSON.parse on the texts that occur here: null, and an object of the two
\* string members content and file_name; any other text met is malformed
\* JSON, on which JSON.parse throws a SyntaxError (ok = FALSE).
JSONparse(t) ==
    IF t = NullText THEN [ok |-> TRUE, val |-> Null]
    ELSE IF ~Expect(t, 1, <<"{">> \o Quote(KeyContent) \o <<":">>)
         THEN [ok |-> FALSE, val |-> Null]
    ELSE LET c == ReadString(t, Len(KeyContent) + 5)
         IN  IF ~c.ok \/ ~Expect(t, c.next, <<",">> \o Quote(KeyFileName) \o <<":">>)
             THEN [ok |-> FALSE, val |-> Null]
             ELSE LET f == ReadString(t, c.next + Len(KeyFileName) + 4)
                  IN  IF f.ok /\ f.next = Len(t) /\ t[f.next] = "}"
                      THEN [ok |-> TRUE, val |-> Obj(c.val, f.val)]
                      ELSE [ok |-> FALSE, val |-> Null]

----------------------------------------------------------------------------
(* The store, the list and the backend's records *)

\* the value `file` is created with
InitialFile == [uuid |-> "", content |-> Obj(<<>>, <<>>)]

\* the n-th identifier crypto.randomUUID() hands out: never empty, never
\* one handed out before, never one the backend already holds
RandomUUID(n) == "u" \o ToString(n)

\* records a backend may hold when the program starts: one written by an
\* earlier session, one whose content is JSON but no object, one whose
\* content is cut short
PrevRecord == [uuid |-> "p1", content |-> JSONstringify(Obj(<<"a">>, <<QUOTE>>))]
NullRecord == [uuid |-> "p2", content |-> NullText]
CutRecord == [uuid |-> "p3", content |-> <<"{", QUOTE, "c">>]

InitStores == {<<>>, <<PrevRecord, NullRecord, CutRecord>>}

\* save_file: upsert by uuid, the record keeps its place when it exists
Upsert(recs, uuid, content) ==
    IF \E i \in DOMAIN recs : recs[i].uuid = uuid
    THEN [i \in DOMAIN recs |->
             IF recs[i].uuid = uuid THEN [recs[i] EXCEPT !.content = content]
             ELSE recs[i]]
    ELSE Append(recs, [uuid |-> uuid, content |-> content])

Remove(s, i) == SubSeq(s, 1, i - 1) \o SubSeq(s, i + 1, Len(s))

\* invoke("get_files")
GetFilesCall ==
    [kind |-> "get_files", fileName |-> <<>>, uuid |-> "", content |-> <<>>,
     st |-> "sent", data |-> <<>>, snap |-> Null, cur |-> FALSE, prior |-> {},
     snapUuid |-> ""]

\* invoke("save_file", {fileName, uuid, content}); snap, cur and prior are
\* history: the value of $file.content the request was built from, whether
\* the note in the editor is still the one the request was built from, and
\* the identifiers under which that note had been saved before; snapUuid is
\* history too, the value of $file.uuid when the request was built
SaveFileCall(uuid) ==
    [kind |-> "save_file", fileName |-> file.content.file_name, uuid |-> uuid,
     content |-> JSONstringify(file.content),
     st |-> "sent", data |-> <<>>, snap |-> file.content, cur |-> TRUE,
     prior |-> savedAs, snapUuid |-> file.uuid]

Did(cmd, err) == [cmd |-> cmd, err |-> err]

----------------------------------------------------------------------------
(* The rendered output *)

LDQUO == "u201c"   \* the character U+201C, one element of a text
RDQUO == "u201d"   \* the character U+201D

\* marked's inline pass over the characters the user types, with
\* smartypants: a backslash before a quote or a backslash escapes it (the
\* quote comes out as &quot;), a quote that opens the text or follows an
\* escape becomes U+201C, any other quote U+201D
RECURSIVE Inline(_, _)
Inline(s, opening) ==
    IF s = <<>> THEN <<>>
    ELSE IF Head(s) = BSLASH /\ Len(s) >= 2 /\ s[2] = QUOTE
         THEN <<"&", "q", "u", "o", "t", ";">> \o Inline(Tail(Tail(s)), TRUE)
    ELSE IF Head(s) = BSLASH /\ Len(s) >= 2 /\ s[2] = BSLASH
         THEN <<BSLASH>> \o Inline(Tail(Tail(s)), TRUE)
    ELSE IF Head(s) = QUOTE
         THEN <<IF opening THEN LDQUO ELSE RDQUO>> \o Inline(Tail(s), FALSE)
    ELSE <<Head(s)>> \o Inline(Tail(s), FALSE)

\* marked(body, {gfm, smartypants, smartLists}): nothing for an empty body,
\* one paragraph for a line of the characters the user types
Marked(body) ==
    IF body = <<>> THEN <<>>
    ELSE <<"<", "p", ">">> \o Inline(body, TRUE) \o <<"<", "/", "p", ">", "\n">>

\* the reactive statement $: output = marked($file.content.content, ...),
\* run when the store has changed and before the page is patched; reading
\* .content of null throws and `output` keeps the value it had
Refresh(f, out) ==
    IF f.content.t = "null" THEN out ELSE Marked(f.content.content)

----------------------------------------------------------------------------
(* The initial state: the component's script has run, onClick() included *)

Init ==
    /\ file = InitialFile
    /\ files = <<>>
    /\ calls = <<GetFilesCall>>
    /\ store \in InitStores
    /\ nUuid = 0
    /\ nCalls = 1
    /\ nEdits = 0
    /\ outcome = Did("", "")
    /\ savedAs = {}
    /\ output = Marked(InitialFile.content.content)
    /\ mounted = TRUE
    /\ succeeded = FALSE

----------------------------------------------------------------------------
(* The handlers *)

\* bind:value of the title input: an input event carries a changed value
EditTitle(s) ==
    /\ mounted
    /\ nEdits < MaxEdits
    /\ file.content.t = "null" \/ s # file.content.file_name
    /\ nEdits' = nEdits + 1
    /\ IF file.content.t = "null"
       THEN /\ outcome' = Did("", "TypeError")
            /\ UNCHANGED file
       ELSE /\ file' = [file EXCEPT !.content.file_name = s]
            /\ outcome' = Did("", "")
    /\ output' = Refresh(file', output)
    /\ UNCHANGED <<files, calls, store, nUuid, nCalls, savedAs,
                 mounted, succeeded>>

\* a textarea whose input also reaches the requests in flight, as if they
\* held the store's object instead of its text
EditBodyLive(s) ==
    /\ mounted
    /\ nEdits < MaxEdits
    /\ file.content.t = "object"
    /\ s # file.content.content
    /\ nEdits' = nEdits + 1
    /\ file' = [file EXCEPT !.content.content = s]
    /\ calls' = [k \in DOMAIN calls |->
                    IF calls[k].kind = "save_file" /\ calls[k].st = "sent"
                    THEN [calls[k] EXCEPT !.content = JSONstringify(file'.content)]
                    ELSE calls[k]]
    /\ outcome' = Did("", "")
    /\ output' = Refresh(file', output)
    /\ UNCHANGED <<files, store, nUuid, nCalls, savedAs, mounted, succeeded>>

\* bind:value of the textarea
EditBody(s) ==
    /\ mounted
    /\ nEdits < MaxEdits
    /\ file.content.t = "null" \/ s # file.content.content
    /\ nEdits' = nEdits + 1
    /\ IF file.content.t = "null"
       THEN /\ outcome' = Did("", "TypeError")
            /\ UNCHANGED file
       ELSE /\ file' = [file EXCEPT !.content.content = s]
            /\ outcome' = Did("", "")
    /\ output' = Refresh(file', output)
    /\ UNCHANGED <<files, calls, store, nUuid, nCalls, savedAs,
                 mounted, succeeded>>

\* onClickSave up to its await
OnClickSave ==
    /\ mounted
    /\ nCalls < MaxCalls
    /\ LET fresh == file.uuid = ""
           uuid == IF fresh THEN RandomUUID(nUuid + 1) ELSE file.uuid
       IN  /\ nUuid' = IF fresh THEN nUuid + 1 ELSE nUuid
           /\ IF file.content.t = "null"
              THEN /\ outcome' = Did("", "TypeError")
                   /\ UNCHANGED <<calls, nCalls>>
              ELSE /\ calls' = Append(calls, SaveFileCall(uuid))
                   /\ nCalls' = nCalls + 1
                   /\ outcome' = Did("", "")
    /\ UNCHANGED <<file, files, store, nEdits, savedAs,
                 output, mounted, succeeded>>

\* onClick up to its await
OnClick ==
    /\ mounted
    /\ nCalls < MaxCalls
    /\ calls' = Append(calls, GetFilesCall)
    /\ nCalls' = nCalls + 1
    /\ outcome' = Did("", "")
    /\ UNCHANGED <<file, files, store, nUuid, nEdits, savedAs,
                 output, mounted, succeeded>>

\* onClickSave after its await, the promise fulfilled
OnClickSaveResume(i) ==
    /\ calls[i].kind = "save_file"
    /\ calls[i].st = "ok"
    /\ files' = calls[i].data
    /\ calls' = Remove(calls, i)
    /\ savedAs' = IF calls[i].cur THEN savedAs \cup {calls[i].uuid} ELSE savedAs
    /\ outcome' = Did("", "")
    /\ succeeded' = TRUE
    /\ UNCHANGED <<file, store, nUuid, nCalls, nEdits,
                 output, mounted>>

\* a rejection handled as an empty answer: files = [...[]]
SaveRejectClears(i) ==
    /\ calls[i].kind = "save_file"
    /\ calls[i].st = "sent"
    /\ files' = <<>>
    /\ calls' = Remove(calls, i)
    /\ outcome' = Did("save_file", "BackendError")
    /\ UNCHANGED <<file, store, nUuid, nCalls, nEdits, savedAs,
                 output, mounted, succeeded>>

\* onClickSave after its await, the promise rejected: the command failed
\* with BackendError, all or nothing, so the backend's records are untouched
OnClickSaveReject(i) ==
    /\ calls[i].kind = "save_file"
    /\ calls[i].st = "sent"
    /\ calls' = Remove(calls, i)
    /\ outcome' = Did("save_file", "BackendError")
    /\ UNCHANGED <<file, files, store, nUuid, nCalls, nEdits, savedAs,
                 output, mounted, succeeded>>

\* a load that merges: the answer, then the cached records it does not name
LoadMerges(i) ==
    /\ calls[i].kind = "get_files"
    /\ calls[i].st = "ok"
    /\ files' = calls[i].data \o
                 SelectSeq(files, LAMBDA r :
                     \A k \in DOMAIN calls[i].data : calls[i].data[k].uuid # r.uuid)
    /\ calls' = Remove(calls, i)
    /\ outcome' = Did("", "")
    /\ succeeded' = TRUE
    /\ UNCHANGED <<file, store, nUuid, nCalls, nEdits, savedAs,
                 output, mounted>>

\* onClick after its await, the promise fulfilled
OnClickResume(i) ==
    /\ calls[i].kind = "get_files"
    /\ calls[i].st = "ok"
    /\ files' = calls[i].data
    /\ calls' = Remove(calls, i)
    /\ outcome' = Did("", "")
    /\ succeeded' = TRUE
    /\ UNCHANGED <<file, store, nUuid, nCalls, nEdits, savedAs,
                 output, mounted>>

\* a rejection caught and turned into an empty list
LoadRejectClears(i) ==
    /\ calls[i].kind = "get_files"
    /\ calls[i].st = "sent"
    /\ files' = <<>>
    /\ calls' = Remove(calls, i)
    /\ outcome' = Did("", "")
    /\ UNCHANGED <<file, store, nUuid, nCalls, nEdits, savedAs,
                 output, mounted, succeeded>>

\* onClick after its await, the promise rejected with BackendError
OnClickReject(i) ==
    /\ calls[i].kind = "get_files"
    /\ calls[i].st = "sent"
    /\ calls' = Remove(calls, i)
    /\ outcome' = Did("get_files", "BackendError")
    /\ UNCHANGED <<file, files, store, nUuid, nCalls, nEdits, savedAs,
                 output, mounted, succeeded>>

\* a click on an item that is already in the editor puts the empty note back
SelectToggle(u, f) ==
    IF u.uuid = f.uuid THEN InitialFile
    ELSE [uuid |-> f.uuid, content |-> JSONparse(f.content).val]

\* a callback that spreads the store's value over the record: a note that
\* has a uuid keeps it
SelectKeepsUuid(u, f) ==
    [uuid |-> IF u.uuid # "" THEN u.uuid ELSE f.uuid,
     content |-> JSONparse(f.content).val]

\* the callback the click on list item f hands to file.update, applied to
\* the store's value u: ({...f, content: JSON.parse(f.content)})
SelectUpdate(u, f) == [uuid |-> f.uuid, content |-> JSONparse(f.content).val]

\* file.update(callback): the store takes the callback's result; when the
\* callback throws, set() is never reached and the store keeps its value
StoreUpdate(u, f) ==
    IF JSONparse(f.content).ok THEN SelectUpdate(u, f) ELSE u

\* a click that also moves the clicked record to the head of the list
ItemClickMovesFirst(i) ==
    /\ mounted
    /\ file' = StoreUpdate(file, files[i])
    /\ files' = <<files[i]>> \o Remove(files, i)
    /\ IF JSONparse(files[i].content).ok
       THEN /\ savedAs' = {}
            /\ calls' = [k \in DOMAIN calls |-> [calls[k] EXCEPT !.cur = FALSE]]
            /\ outcome' = Did("", "")
       ELSE /\ outcome' = Did("", "SyntaxError")
            /\ UNCHANGED <<savedAs, calls>>
    /\ output' = Refresh(file', output)
    /\ UNCHANGED <<store, nUuid, nCalls, nEdits, mounted, succeeded>>

\* the click on the i-th item of the list
ItemClick(i) ==
    /\ mounted
    /\ file' = StoreUpdate(file, files[i])
    /\ IF JSONparse(files[i].content).ok
       THEN /\ savedAs' = {}
            /\ calls' = [k \in DOMAIN calls |-> [calls[k] EXCEPT !.cur = FALSE]]
            /\ outcome' = Did("", "")
       ELSE /\ outcome' = Did("", "SyntaxError")
            /\ UNCHANGED <<savedAs, calls>>
    /\ output' = Refresh(file', output)
    /\ UNCHANGED <<files, store, nUuid, nCalls, nEdits,
                 mounted, succeeded>>

\* the component is destroyed: its handlers get no more events, the
\* promises it awaits stay pending
Teardown ==
    /\ mounted
    /\ mounted' = FALSE
    /\ UNCHANGED <<file, files, calls, store, nUuid, nCalls, nEdits, outcome,
                   savedAs, output, succeeded>>

----------------------------------------------------------------------------
(* The backend *)

\* get_files: the full current set of records
BackendGetFiles(i) ==
    /\ calls[i].kind = "get_files"
    /\ calls[i].st = "sent"
    /\ calls' = [calls EXCEPT ![i].st = "ok", ![i].data = store]
    /\ UNCHANGED <<file, files, store, nUuid, nCalls, nEdits, outcome, savedAs,
                 output, mounted, succeeded>>

\* save_file: upsert, then the full updated set
BackendSaveFile(i) ==
    /\ calls[i].kind = "save_file"
    /\ calls[i].st = "sent"
    /\ store' = Upsert(store, calls[i].uuid, calls[i].content)
    /\ calls' = [calls EXCEPT ![i].st = "ok", ![i].data = store']
    /\ UNCHANGED <<file, files, nUuid, nCalls, nEdits, outcome, savedAs,
                 output, mounted, succeeded>>

----------------------------------------------------------------------------

Next ==
    \/ \E s \in Strs : EditTitle(s)
    \/ \E s \in Strs : EditBody(s)
    \/ OnClickSave
    \/ OnClick
    \/ \E i \in DOMAIN calls : OnClickSaveResume(i)
    \/ \E i \in DOMAIN calls : OnClickSaveReject(i)
    \/ \E i \in DOMAIN calls : OnClickResume(i)
    \/ \E i \in DOMAIN calls : OnClickReject(i)
    \/ \E i \in DOMAIN files : ItemClick(i)
    \/ Teardown
    \/ \E i \in DOMAIN calls : BackendGetFiles(i)
    \/ \E i \in DOMAIN calls : BackendSaveFile(i)

Spec == Init /\ [][Next]_vars

----------------------------------------------------------------------------
(* Properties *)

\* C1: at most one backend call (get_files or save_file) is outstanding in
\* every reachable state.
SingleFlight == Len(calls) <= 1

\* C2: when a save succeeds and the note in the editor is still the one it
\* was sent for, the note's uuid is non-empty and is the identifier sent.
SaveSetsUuid ==
    [][\A i \in DOMAIN calls :
          (OnClickSaveResume(i) /\ calls[i].cur)
              => (file'.uuid # "" /\ file'.uuid = calls[i].uuid)]_vars

\* C3: a save of a note that has been saved successfully before, with only
\* title and body edits since, carries the uuid of the earlier save, so it
\* updates that record.
ResaveKeepsUuid ==
    \A i \in DOMAIN calls :
        calls[i].kind = "save_file" => calls[i].prior \subseteq {calls[i].uuid}

\* C4: when a save succeeds, the list holds a record with the identifier
\* sent whose content parses to the title and body the store held when
\* the save was invoked.
SaveRoundTrip ==
    [][\A i \in DOMAIN calls :
          OnClickSaveResume(i)
              => \E k \in DOMAIN files' :
                    /\ files'[k].uuid = calls[i].uuid
                    /\ JSONparse(files'[k].content).ok
                    /\ JSONparse(files'[k].content).val = calls[i].snap]_vars

\* a generated identifier's record is in the list and its content parses to
\* a title that needed escaping
SaveRoundTripSeen ==
    \E k \in DOMAIN files :
        /\ files[k].uuid = RandomUUID(1)
        /\ JSONparse(files[k].content).ok
        /\ JSONparse(files[k].content).val.file_name = <<BSLASH>>

\* C5: a click on Save while a save_file call is outstanding is rejected
\* with ConcurrentOperationRejected, sends no call and changes neither the
\* store nor the list.
SaveWhileSavingRejected ==
    [][(OnClickSave /\ \E i \in DOMAIN calls : calls[i].kind = "save_file")
          => (/\ outcome'.err = "ConcurrentOperationRejected"
              /\ UNCHANGED <<calls, file, files>>)]_vars

LoadFailureKeepsList ==
    [][\A i \in DOMAIN calls :
          OnClickReject(i)
              => (files' = files /\ outcome' = Did("get_files", "BackendError"))]_vars

\* a get_files failure has arrived while the list held records
LoadFailureSeen ==
    outcome = Did("get_files", "BackendError") /\ files # <<>>

\* whether a record's content parses to an object {content, file_name}
IsNote(text) == JSONparse(text).ok /\ JSONparse(text).val.t = "object"

\* C8: a click on a record whose content does not parse to a title and a
\* body raises an error and leaves the store as it was.
UnparsableSelectRejected ==
    [][\A i \in DOMAIN files :
          (ItemClick(i) /\ ~IsNote(files[i].content))
              => (outcome'.err # "" /\ file' = file)]_vars

\* C9: after a click on a record, a second click on the same record leaves
\* the store as the first click left it.
SelectIdempotent ==
    [][\A i \in DOMAIN files :
          ItemClick(i) => StoreUpdate(file', files'[i]) = file']_vars

\* the record of the earlier session has been selected from the list
SelectSeen ==
    \E i \in DOMAIN files :
        /\ files[i] = PrevRecord
        /\ file = [uuid |-> "p1", content |-> Obj(<<"a">>, <<QUOTE>>)]

\* C10: the store always holds a note whose title and body are strings.
NoteWellFormed ==
    /\ file.content.t = "object"
    /\ file.content.content \in Seq(Chars)
    /\ file.content.file_name \in Seq(Chars)

\* C11: the store's uuid is empty or the uuid of a record of the list.
UuidInCollection ==
    file.uuid = "" \/ \E k \in DOMAIN files : files[k].uuid = file.uuid

\* C12: a load that succeeds leaves the list equal to the sequence
\* get_files returned, in its order, whatever the list held before.
LoadReplacesWholesale ==
    [][\A i \in DOMAIN calls :
          OnClickResume(i) => files' = calls[i].data]_vars

\* the list held a saved note's record, the note was selected from it, and
\* a load has since replaced the list by one without that record
LoadReplacedSeen ==
    /\ file.uuid = RandomUUID(1)
    /\ files # <<>>
    /\ \A k \in DOMAIN files : files[k].uuid \in {"p1", "p2", "p3"}

\* C13: a click on a record whose content parses to a title and a body
\* leaves the store holding that record's uuid and exactly that title and
\* body.
SelectReplacesNote ==
    [][\A i \in DOMAIN files :
          (ItemClick(i) /\ IsNote(files[i].content))
              => (/\ file'.uuid = files[i].uuid
                  /\ file'.content = JSONparse(files[i].content).val)]_vars

\* the earlier session's record is in the editor although an input event
\* has been taken
SelectReplacedSeen ==
    /\ nEdits = 1
    /\ file = [uuid |-> "p1", content |-> Obj(<<"a">>, <<QUOTE>>)]
    /\ \E i \in DOMAIN files : files[i] = PrevRecord

\* C14: a click on a record while a load or save is outstanding does not
\* change the store.
SelectOnlyWhenIdle ==
    [][\A i \in DOMAIN files :
          (ItemClick(i) /\ calls # <<>>) => file' = file]_vars

\* C15: the HTML shown is the rendering of the body the store holds (of
\* the empty body when the store holds none).
OutputNeverStale ==
    output = Marked(IF file.content.t = "object" THEN file.content.content
                    ELSE <<>>)

\* C16: once the component is torn down, neither the list nor the store
\* changes any more.
TeardownDiscards ==
    [][~mounted => (files' = files /\ file' = file)]_vars

\* C17: the list changes only when a load or a save is resumed from a
\* fulfilled call.
OnlyCallsWriteList ==
    [][files' # files
          => \E i \in DOMAIN calls :
                OnClickResume(i) \/ OnClickSaveResume(i)]_vars

\* a record was selected, an input event taken and a call has failed,
\* and the list still holds its records
ListKeptSeen ==
    /\ nEdits = 1
    /\ file.uuid = "p1"
    /\ outcome.err = "BackendError"
    /\ files = <<PrevRecord, NullRecord, CutRecord>>

\* C18: when no call is outstanding and some call has succeeded, the list
\* equals the backend's records.
CacheIsCurrent ==
    (calls = <<>> /\ succeeded) => files = store

\* C19: what a save_file call makes the backend store is the note as the
\* store held it when the save was invoked: its file name and content are
\* those of that value, its uuid is that value's uuid or, when that was
\* empty, an identifier no record holds yet.
RequestIsSnapshot ==
    [][\A i \in DOMAIN calls :
          BackendSaveFile(i)
              => /\ calls[i].fileName = calls[i].snap.file_name
                 /\ calls[i].content = JSONstringify(calls[i].snap)
                 /\ IF calls[i].snapUuid # ""
                    THEN calls[i].uuid = calls[i].snapUuid
                    ELSE /\ calls[i].uuid # ""
                         /\ \A k \in DOMAIN store : store[k].uuid # calls[i].uuid
                 /\ \E k \in DOMAIN store' :
                       /\ store'[k].uuid = calls[i].uuid
                       /\ store'[k].content = JSONstringify(calls[i].snap)]_vars

\* a save has been stored as invoked although the note was edited while
\* the call was outstanding
RequestSnapshotSeen ==
    \E i \in DOMAIN calls :
        /\ calls[i].kind = "save_file"
        /\ calls[i].st = "ok"
        /\ calls[i].cur
        /\ file.content # calls[i].snap
        /\ \E k \in DOMAIN store :
              /\ store[k].uuid = calls[i].uuid
              /\ store[k].content = JSONstringify(calls[i].snap)

====
